---------------------------- MODULE Spec2Model ----------------------------
(***************************************************************************)
(* Verification model of the deployment smoke-test and diagnostic scripts  *)
(* of the contact-management microservice repository:                      *)
(*   comprehensive_test.py, simple_test.py, final_verification.py,         *)
(*   test_all_20_endpoints.py, test-contact-api.py,                        *)
(*   aws_diagnostic_script.py, simple_diagnostic.py.                       *)
(*                                                                         *)
(* Every script is a single-threaded, straight-line sequence of network    *)
(* calls.  One run of one script is one behaviour: Init picks the script,  *)
(* every action is one iteration of one of its loops (one check), and the  *)
(* remote service is the environment: the outcome of each call is drawn    *)
(* with \E from Outcomes.                                                  *)
(***************************************************************************)
EXTENDS Integers, Sequences, FiniteSets, TLC

VARIABLES
    script,           \* which script this run executes
    pc,               \* position of the run inside main()
    idx,              \* 1-based index of the next entry of the current list
    total_tests,      \* total_tests / total
    passed_tests,     \* passed_tests / passed
    auth_token,       \* auth_token (None until the login check stores one)
    result,           \* value returned by the last test_endpoint / test call
    rapid_success,    \* final_verification: rapid_success
    success_rate,     \* success_rate, an exact fraction [num, den]
    printed_rate,     \* the text of f"{success_rate:.1f}", in tenths of a percent
    verdict,          \* the DEPLOYMENT STATUS line printed by the summary
    exit_code,        \* test-contact-api: argument of sys.exit
    report,           \* diagnostics: the line printed for the last check
    requests_issued,  \* observation: number of requests.get/post/put calls made
    last_request,     \* observation: the last HTTP request put on the wire
    last_outcome,     \* observation: how the last network or command call ended
    login_outcome     \* observation: how the call of the login check ended

vars == <<script, pc, idx, total_tests, passed_tests, auth_token, result,
          rapid_success, success_rate, printed_rate, verdict, exit_code,
          report, requests_issued, last_request, last_outcome, login_outcome>>

(***************************************************************************)
(* Bounds of the model.                                                    *)
(***************************************************************************)
\* longest run of whitespace the service appends after a response document
MaxPad == 1

(***************************************************************************)
(* Python values.                                                          *)
(***************************************************************************)
None == [t |-> "none", v |-> ""]
JStr(s) == [t |-> "str", v |-> s]
JInt(s) == [t |-> "int", v |-> s]

\* bool(x) as used by "if auth_token:"
Truthy(x) ==
    \/ x.t = "str" /\ x.v # ""
    \/ x.t = "int" /\ x.v # "0"

\* str(x) as used by an f-string
Str(x) == IF x.t = "none" THEN "None" ELSE x.v

\* Python's "sub in s" on strings
Contains(sub, s) ==
    \E i \in 1..(Len(s) - Len(sub) + 1) : SubSeq(s, i, i + Len(sub) - 1) = sub

Min(a, b) == IF a < b THEN a ELSE b

(***************************************************************************)
(* The remote service (environment).                                       *)
(*                                                                         *)
(* A response body is a JSON document of jsonLen characters followed by    *)
(* padLen characters of whitespace, or a text that is not JSON.  shape     *)
(* says what the document looks like:                                      *)
(*   token     {"data": {"token": <token>}}                                *)
(*   notoken   {"data": {"user": "admin"}}                                 *)
(*   nodata    {"message": "ok"}                                           *)
(*   datanull  {"data": null}                                              *)
(*   datastr   {"data": "token expired"}                                   *)
(*   list      [1, 2]                                                      *)
(*   scalar    42                                                          *)
(*   html      <html>...</html>        (not JSON)                          *)
(*   empty     no document at all      (not JSON)                          *)
(***************************************************************************)
JsonShapes == {"token", "notoken", "nodata", "datanull", "datastr", "list", "scalar"}

\* the values the service may put in data.token: a string, the empty
\* string, null (decoded to None) and a number
TokenValues == {JStr("abc123"), JStr(""), None, JInt("5")}

\* lengths of the documents the service sends; they straddle the limits
\* at which the scripts cut response.text (100, 150 and 200 characters)
DocLens == {30, 150, 151, 200, 201}

Body(shape, token, jsonLen, padLen) ==
    [shape |-> shape, token |-> token, jsonLen |-> jsonLen, padLen |-> padLen]

Bodies ==
    {Body("token", tk, 30, 0) : tk \in TokenValues}
    \cup {Body("token", JStr("abc123"), n, p) : n \in DocLens, p \in 0..MaxPad}
    \cup {Body(s, None, 30, 0) : s \in (JsonShapes \ {"token"}) \cup {"html"}}
    \cup {Body("html", None, 201, 0), Body("empty", None, 0, 0)}

StatusCodes == {200, 201, 399, 400, 401, 503}

NoBody == Body("empty", None, 0, 0)

Outcome(kind, code, body) == [kind |-> kind, status_code |-> code, body |-> body]

\* what one requests.get/post/put call can do: return a response, raise
\* Timeout, raise ConnectionError, or raise some other exception
Outcomes ==
    {Outcome("response", c, b) : c \in StatusCodes, b \in Bodies}
    \cup {Outcome(k, 0, NoBody) : k \in {"timeout", "connection_error", "exception"}}

\* documents of the endpoints whose response no script decodes
PlainBodies == {Body("nodata", None, 30, 0), Body("html", None, 201, 0)}

PlainOutcomes ==
    {Outcome("response", c, b) : c \in StatusCodes, b \in PlainBodies}
    \cup {Outcome(k, 0, NoBody) : k \in {"timeout", "connection_error", "exception"}}

\* what the service can answer on an endpoint: the login endpoint answers
\* with any document, the others with a plain one
ServiceOutcomes(endpoint) ==
    IF endpoint = "/api/v1/auth/login" THEN Outcomes ELSE PlainOutcomes

\* how a call ended: a status code, or the exception raised
Answer(outcome) == Outcome(outcome.kind, outcome.status_code, NoBody)

\* the outcome recorded before the login check has run
NoOutcome == Outcome("none", 0, NoBody)

TextLen(body) == body.jsonLen + body.padLen

(***************************************************************************)
(* Response text as kept by the scripts.  kept is the number of characters *)
(* of response.text that survive the slice, ellipsis tells whether '...'   *)
(* was appended.                                                           *)
(***************************************************************************)
Content(body, kept, ellipsis) ==
    [shape |-> body.shape, token |-> body.token, jsonLen |-> body.jsonLen,
     kept |-> kept, ellipsis |-> ellipsis]

\* the key 'content' is absent from the dict
NoContent == [shape |-> "absent", token |-> None, jsonLen |-> 0, kept |-> 0,
              ellipsis |-> FALSE]

\* response.text[:n]
Slice(body, n) == Content(body, Min(TextLen(body), n), FALSE)

\* bool(content): a non-empty string
NonEmpty(content) == content.kept > 0 \/ content.ellipsis

\* json.loads(content) returns (does not raise) exactly when the kept text
\* is the whole document, followed by nothing but whitespace.  A proper
\* prefix of an object, array or string document is not JSON; a prefix of
\* the scalar document is a scalar again and takes the same path below.
JsonLoads(content) ==
    /\ content.shape \in JsonShapes
    /\ content.kept >= content.jsonLen
    /\ ~content.ellipsis

\* 'data' in response_data and 'token' in response_data['data'], evaluated
\* on the decoded document, evaluates to True without raising only for a
\* dict whose 'data' is a dict with key 'token'.  (datanull, scalar raise
\* TypeError; datastr raises TypeError on the subscript; list, nodata and
\* notoken evaluate to False.)
HasDataToken(content) == JsonLoads(content) /\ content.shape = "token"

\* the key 'status_code' is absent from the dict
NoCode == -1

\* the key 'message' / 'error' is absent from the dict
NoMessage == "<absent>"

\* the dict (or tuple) a test_endpoint returns
Result(status, code, content, message) ==
    [status |-> status, status_code |-> code, content |-> content,
     message |-> message]
NoResult == Result("NONE", NoCode, NoContent, NoMessage)

\* marks an exception that no except clause of test_endpoint catches
Uncaught == "UNCAUGHT"

\* str(e) of the exception a call raised
ExcText(kind) ==
    CASE kind = "timeout" -> "Read timed out"
      [] kind = "connection_error" -> "Max retries exceeded"
      [] OTHER -> "exception text"

\* requests issued carry either no Authorization header or a value
NoHeader == "<no Authorization header>"
Request(method, endpoint, authorization) ==
    [method |-> method, endpoint |-> endpoint, authorization |-> authorization]
NoRequest == Request("", "", NoHeader)

Test(method, endpoint) == [method |-> method, endpoint |-> endpoint]

(***************************************************************************)
(* Success rate.  The scripts compute passed / total * 100 in floating     *)
(* point; the model keeps the exact fraction num / den.                    *)
(***************************************************************************)
Rate(num, den) == [num |-> num, den |-> den]
NoRate == Rate(-1, 1)

\* (passed_tests / total_tests * 100) if total_tests > 0 else 0
GuardedRate(passed, total) ==
    IF total > 0 THEN Rate(passed * 100, total) ELSE Rate(0, 1)

\* f"{success_rate:.1f}": the nearest multiple of 0.1, a tie going to the
\* even digit; the value is returned in tenths
Format1fFloor(r) == (r.num * 10) \div r.den
Format1f(r) ==
    LET q == (r.num * 10) \div r.den
        rem == (r.num * 10) % r.den
    IN  IF 2 * rem > r.den THEN q + 1
        ELSE IF 2 * rem < r.den THEN q
        ELSE IF q % 2 = 0 THEN q ELSE q + 1

\* success_rate >= k
RateGE(r, k) == r.num >= k * r.den

(***************************************************************************)
(* comprehensive_test.py                                                   *)
(***************************************************************************)
CT == "comprehensive_test"

CT_ContentLimit == 200

\* the tests of test_categories, in order
CT_tests ==
    << Test("GET", "/health"), Test("GET", "/health/deep"),
       Test("GET", "/status"), Test("GET", "/ready"), Test("GET", "/alive"),
       Test("GET", "/metrics"),
       Test("GET", "/api/v1/test"), Test("POST", "/api/v1/public/contact"),
       Test("POST", "/api/v1/auth/login") >>

CT_dashboard_tests ==
    << Test("GET", "/api/v1/dashboard/contacts"),
       Test("GET", "/api/v1/dashboard/contacts/stats"),
       Test("POST", "/api/v1/dashboard/contact") >>

\* headers['Authorization'] is set only under "if auth_token:"
CT_AuthorizationForged(token) == "Bearer " \o Str(token)
CT_Authorization(token) ==
    IF Truthy(token) THEN "Bearer " \o Str(token) ELSE NoHeader

\* response.text[:200] + '...' if len(response.text) > 200 else response.text
CT_Content(body) ==
    IF TextLen(body) > CT_ContentLimit
    THEN Content(body, CT_ContentLimit, TRUE)
    ELSE Content(body, TextLen(body), FALSE)

\* 'SUCCESS' if response.status_code < 400 else 'FAILED'
CT_ClassifyLenient(status_code) == IF status_code < 500 THEN "SUCCESS" ELSE "FAILED"
CT_Classify(status_code) == IF status_code < 400 THEN "SUCCESS" ELSE "FAILED"

\* test_endpoint: the dict it returns for an outcome of the HTTP call
CT_test_endpoint_NoCatchAll(method, outcome) ==
    IF method \notin {"GET", "POST", "PUT"}
    THEN Result("ERROR", NoCode, NoContent, "Unsupported method")
    ELSE CASE outcome.kind = "response" ->
                Result(CT_Classify(outcome.status_code), outcome.status_code,
                       CT_Content(outcome.body), NoMessage)
           [] outcome.kind = "timeout" ->
                Result("TIMEOUT", NoCode, NoContent, "Request timed out after 10s")
           [] outcome.kind = "connection_error" ->
                Result("CONNECTION_ERROR", NoCode, NoContent,
                       "Unable to connect to server")
           [] OTHER ->
                Result(Uncaught, NoCode, NoContent, NoMessage)
CT_test_endpoint(method, outcome) ==
    IF method \notin {"GET", "POST", "PUT"}
    THEN Result("ERROR", NoCode, NoContent, "Unsupported method")
    ELSE CASE outcome.kind = "response" ->
                Result(CT_Classify(outcome.status_code), outcome.status_code,
                       CT_Content(outcome.body), NoMessage)
           [] outcome.kind = "timeout" ->
                Result("TIMEOUT", NoCode, NoContent, "Request timed out after 10s")
           [] outcome.kind = "connection_error" ->
                Result("CONNECTION_ERROR", NoCode, NoContent,
                       "Unable to connect to server")
           [] OTHER ->
                Result("ERROR", NoCode, NoContent, ExcText(outcome.kind))

\* the special handling of the login test: 'auth' in endpoint and
\* method == 'POST' and 'login' in endpoint
CT_IsLogin(test) ==
    Contains("auth", test.endpoint) /\ test.method = "POST"
        /\ Contains("login", test.endpoint)

\* the token main() holds after processing the login result
CT_ExtractTokenAnyStatus(res, old) ==
    IF HasDataToken(res.content) THEN res.content.token ELSE old
CT_ExtractToken(res, old) ==
    IF res.status = "SUCCESS" /\ res.status_code = 200 /\ HasDataToken(res.content)
    THEN res.content.token
    ELSE old

\* an exception that leaves test_endpoint ends main()
Propagate(res, next) == IF res.status = Uncaught THEN "aborted" ELSE next

\* total_tests += 1 follows every check, whatever its result
CountedOnSuccess(res, total) == IF res.status = "SUCCESS" THEN total + 1 ELSE total
Counted(res, total) == IF res.status = Uncaught THEN total ELSE total + 1

\* "if auth_token:" in front of the dashboard tests
CT_AfterCategoriesAlways(token) == "dashboard"
CT_AfterCategories(token) == IF Truthy(token) THEN "dashboard" ELSE "summary"

\* one iteration of "for test in category['tests']"
CT_CategoryTest ==
    /\ script = CT /\ pc = "categories"
    /\ \E outcome \in ServiceOutcomes(CT_tests[idx].endpoint) :
        LET test == CT_tests[idx]
            login == CT_IsLogin(test)
            header == IF login THEN NoHeader ELSE CT_Authorization(auth_token)
            res == CT_test_endpoint(test.method, outcome)
            token == IF login THEN CT_ExtractToken(res, auth_token) ELSE auth_token
            after == IF idx < Len(CT_tests) THEN "categories"
                     ELSE CT_AfterCategories(token)
        IN  /\ result' = res
            /\ last_outcome' = outcome
            /\ auth_token' = token
            /\ login_outcome' = IF login THEN Answer(outcome) ELSE login_outcome
            /\ last_request' = Request(test.method, test.endpoint, header)
            /\ requests_issued' = requests_issued + 1
            /\ total_tests' = Counted(res, total_tests)
            /\ passed_tests' = IF res.status = "SUCCESS" THEN passed_tests + 1
                               ELSE passed_tests
            /\ pc' = Propagate(res, after)
            /\ idx' = IF idx < Len(CT_tests) THEN idx + 1 ELSE 1
    /\ UNCHANGED <<script, rapid_success, success_rate, printed_rate, verdict,
                   exit_code, report>>

\* one iteration of "for method, endpoint, test_name, *data in dashboard_tests"
CT_DashboardTest ==
    /\ script = CT /\ pc = "dashboard"
    /\ \E outcome \in ServiceOutcomes(CT_dashboard_tests[idx].endpoint) :
        LET test == CT_dashboard_tests[idx]
            res == CT_test_endpoint(test.method, outcome)
        IN  /\ result' = res
            /\ last_outcome' = outcome
            /\ last_request' = Request(test.method, test.endpoint,
                                       CT_Authorization(auth_token))
            /\ requests_issued' = requests_issued + 1
            /\ total_tests' = Counted(res, total_tests)
            /\ passed_tests' = IF res.status = "SUCCESS" THEN passed_tests + 1
                               ELSE passed_tests
            /\ pc' = Propagate(res, IF idx < Len(CT_dashboard_tests)
                                    THEN "dashboard" ELSE "summary")
            /\ idx' = IF idx < Len(CT_dashboard_tests) THEN idx + 1 ELSE 1
    /\ UNCHANGED <<script, auth_token, login_outcome, rapid_success,
                   success_rate, printed_rate, verdict, exit_code, report>>

\* if success_rate >= 80: SUCCESSFUL else: ISSUES DETECTED
CT_VerdictNinety(rate) ==
    IF RateGE(rate, 90) THEN "SUCCESSFUL" ELSE "ISSUES DETECTED"
CT_Verdict(rate) ==
    IF RateGE(rate, 80) THEN "SUCCESSFUL" ELSE "ISSUES DETECTED"

\* the final summary
CT_Summary ==
    /\ script = CT /\ pc = "summary"
    /\ LET rate == GuardedRate(passed_tests, total_tests)
       IN  /\ success_rate' = rate
           /\ printed_rate' = Format1f(rate)
           /\ verdict' = CT_Verdict(rate)
    /\ pc' = "done"
    /\ UNCHANGED <<script, idx, total_tests, passed_tests, auth_token, result,
                   rapid_success, exit_code, report, requests_issued,
                   last_request, last_outcome, login_outcome>>

(***************************************************************************)
(* simple_test.py                                                          *)
(***************************************************************************)
ST == "simple_test"

ST_ContentLimit == 200

\* tests 1 to 5, then the login test 6
ST_tests ==
    << Test("GET", "/health"), Test("GET", "/health/deep"),
       Test("GET", "/status"), Test("GET", "/api/v1/test"),
       Test("POST", "/api/v1/public/contact"),
       Test("POST", "/api/v1/auth/login") >>

\* tests 7 and 8
ST_dashboard_tests ==
    << Test("GET", "/api/v1/dashboard/contacts"),
       Test("GET", "/api/v1/dashboard/contacts/stats") >>

\* headers['Authorization'] is set only under "if auth_token:"
ST_Authorization(token) ==
    IF Truthy(token) THEN "Bearer " \o Str(token) ELSE NoHeader

ST_Classify(status_code) == IF status_code < 400 THEN "SUCCESS" ELSE "FAILED"

\* test_endpoint; a method other than GET, POST, PUT leaves response unbound
\* and the NameError is caught by "except Exception"
ST_test_endpoint(method, outcome) ==
    IF method \notin {"GET", "POST", "PUT"}
    THEN Result("ERROR", NoCode, NoContent, "exception text")
    ELSE CASE outcome.kind = "response" ->
                Result(ST_Classify(outcome.status_code), outcome.status_code,
                       Slice(outcome.body, ST_ContentLimit), NoMessage)
           [] outcome.kind = "timeout" ->
                Result("TIMEOUT", NoCode, NoContent, "Request timed out after 10s")
           [] outcome.kind = "connection_error" ->
                Result("CONNECTION_ERROR", NoCode, NoContent,
                       "Unable to connect to server")
           [] OTHER ->
                Result("ERROR", NoCode, NoContent, ExcText(outcome.kind))

\* the token main() holds after processing the result of test 6
ST_ExtractTokenAnySuccess(res, old) ==
    IF res.status = "SUCCESS" /\ HasDataToken(res.content)
    THEN res.content.token
    ELSE old
ST_ExtractToken(res, old) ==
    IF res.status = "SUCCESS" /\ res.status_code = 200 /\ HasDataToken(res.content)
    THEN res.content.token
    ELSE old

\* tests 1 to 5: test_endpoint is called without auth_token
ST_Test ==
    /\ script = ST /\ pc = "tests" /\ idx < Len(ST_tests)
    /\ \E outcome \in ServiceOutcomes(ST_tests[idx].endpoint) :
        LET test == ST_tests[idx]
            res == ST_test_endpoint(test.method, outcome)
        IN  /\ result' = res
            /\ last_outcome' = outcome
            /\ last_request' = Request(test.method, test.endpoint,
                                       ST_Authorization(None))
            /\ requests_issued' = requests_issued + 1
            /\ total_tests' = Counted(res, total_tests)
            /\ passed_tests' = IF res.status = "SUCCESS" THEN passed_tests + 1
                               ELSE passed_tests
            /\ pc' = Propagate(res, "tests")
            /\ idx' = idx + 1
    /\ UNCHANGED <<script, auth_token, login_outcome, rapid_success,
                   success_rate, printed_rate, verdict, exit_code, report>>

\* "if auth_token:" in front of tests 7 and 8
ST_AfterLoginAlways(token) == "dashboard"
ST_AfterLogin(token) == IF Truthy(token) THEN "dashboard" ELSE "summary"

\* test 6: the login, followed by "if auth_token:"
ST_Login ==
    /\ script = ST /\ pc = "tests" /\ idx = Len(ST_tests)
    /\ \E outcome \in ServiceOutcomes(ST_tests[idx].endpoint) :
        LET test == ST_tests[idx]
            res == ST_test_endpoint(test.method, outcome)
            token == ST_ExtractToken(res, auth_token)
        IN  /\ result' = res
            /\ last_outcome' = outcome
            /\ auth_token' = token
            /\ login_outcome' = Answer(outcome)
            /\ last_request' = Request(test.method, test.endpoint,
                                       ST_Authorization(None))
            /\ requests_issued' = requests_issued + 1
            /\ total_tests' = Counted(res, total_tests)
            /\ passed_tests' = IF res.status = "SUCCESS" THEN passed_tests + 1
                               ELSE passed_tests
            /\ pc' = Propagate(res, ST_AfterLogin(token))
            /\ idx' = 1
    /\ UNCHANGED <<script, rapid_success, success_rate, printed_rate, verdict,
                   exit_code, report>>

\* tests 7 and 8
ST_DashboardTest ==
    /\ script = ST /\ pc = "dashboard"
    /\ \E outcome \in ServiceOutcomes(ST_dashboard_tests[idx].endpoint) :
        LET test == ST_dashboard_tests[idx]
            res == ST_test_endpoint(test.method, outcome)
        IN  /\ result' = res
            /\ last_outcome' = outcome
            /\ last_request' = Request(test.method, test.endpoint,
                                       ST_Authorization(auth_token))
            /\ requests_issued' = requests_issued + 1
            /\ total_tests' = Counted(res, total_tests)
            /\ passed_tests' = IF res.status = "SUCCESS" THEN passed_tests + 1
                               ELSE passed_tests
            /\ pc' = Propagate(res, IF idx < Len(ST_dashboard_tests)
                                    THEN "dashboard" ELSE "summary")
            /\ idx' = IF idx < Len(ST_dashboard_tests) THEN idx + 1 ELSE 1
    /\ UNCHANGED <<script, auth_token, login_outcome, rapid_success,
                   success_rate, printed_rate, verdict, exit_code, report>>

\* if success_rate >= 80: SUCCESSFUL else: ISSUES DETECTED
ST_Verdict(rate) ==
    IF RateGE(rate, 80) THEN "SUCCESSFUL" ELSE "ISSUES DETECTED"

\* the summary
ST_Summary ==
    /\ script = ST /\ pc = "summary"
    /\ LET rate == GuardedRate(passed_tests, total_tests)
       IN  /\ success_rate' = rate
           /\ printed_rate' = Format1f(rate)
           /\ verdict' = ST_Verdict(rate)
    /\ pc' = "done"
    /\ UNCHANGED <<script, idx, total_tests, passed_tests, auth_token, result,
                   rapid_success, exit_code, report, requests_issued,
                   last_request, last_outcome, login_outcome>>

(***************************************************************************)
(* final_verification.py                                                   *)
(*                                                                         *)
(* test_endpoint returns {'success', 'status_code', 'response_time',       *)
(* 'content'} or {'success': False, 'error'}; the field status of the      *)
(* result holds 'success' ("SUCCESS" for True, "FAILED" for False) and the *)
(* field message holds 'error'.                                            *)
(***************************************************************************)
FV == "final_verification"

FV_ContentLimit == 150

rapid_total == 5

FV_critical_testsDashboardFirst ==
    << Test("GET", "/health"), Test("GET", "/status"),
       Test("GET", "/api/v1/test"),
       Test("GET", "/api/v1/dashboard/contacts"),
       Test("GET", "/api/v1/dashboard/contacts/stats"),
       Test("POST", "/api/v1/auth/login"),
       Test("POST", "/api/v1/public/contact") >>
FV_critical_tests ==
    << Test("GET", "/health"), Test("GET", "/status"),
       Test("GET", "/api/v1/test"),
       Test("POST", "/api/v1/auth/login"),
       Test("GET", "/api/v1/dashboard/contacts"),
       Test("GET", "/api/v1/dashboard/contacts/stats"),
       Test("POST", "/api/v1/public/contact") >>

FV_auth_tests ==
    << Test("GET", "/api/v1/auth/profile"),
       Test("POST", "/api/v1/dashboard/contact") >>

\* auth_headers = {'Authorization': f'Bearer {auth_token}'}
FV_auth_headers(token) == "Bearer " \o Str(token)

\* 'success': response.status_code < 400
FV_Classify(status_code) == IF status_code < 400 THEN "SUCCESS" ELSE "FAILED"

\* test_endpoint; every exception, the NameError of an unsupported method
\* included, is caught by "except Exception"
FV_test_endpoint(method, outcome) ==
    IF method \notin {"GET", "POST", "PUT"}
    THEN Result("FAILED", NoCode, NoContent, "exception text")
    ELSE IF outcome.kind = "response"
    THEN Result(FV_Classify(outcome.status_code), outcome.status_code,
                Slice(outcome.body, FV_ContentLimit), NoMessage)
    ELSE Result("FAILED", NoCode, NoContent, ExcText(outcome.kind))

\* the token main() holds after processing a successful result: the
\* assignment precedes the print of auth_token[:20], so a token that cannot
\* be sliced is stored all the same
FV_ExtractTokenForgetful(endpoint, res, old) ==
    IF /\ res.status = "SUCCESS"
       /\ Contains("auth/login", endpoint)
       /\ NonEmpty(res.content)
       /\ HasDataToken(res.content)
    THEN res.content.token
    ELSE None
FV_ExtractToken(endpoint, res, old) ==
    IF /\ res.status = "SUCCESS"
       /\ Contains("auth/login", endpoint)
       /\ NonEmpty(res.content)
       /\ HasDataToken(res.content)
    THEN res.content.token
    ELSE old

\* the loop over critical_tests calls test_endpoint(method, endpoint, data):
\* headers keeps its default None, whatever auth_token holds
FV_critical_headersWithToken(token) ==
    IF Truthy(token) THEN "Bearer " \o Str(token) ELSE NoHeader
FV_critical_headers(token) == NoHeader

\* one iteration of "for method, endpoint, data, description in critical_tests"
FV_CriticalTest ==
    /\ script = FV /\ pc = "critical"
    /\ \E outcome \in ServiceOutcomes(FV_critical_tests[idx].endpoint) :
        LET test == FV_critical_tests[idx]
            res == FV_test_endpoint(test.method, outcome)
            token == FV_ExtractToken(test.endpoint, res, auth_token)
            after == IF idx < Len(FV_critical_tests) THEN "critical"
                     ELSE IF Truthy(token) THEN "authenticated" ELSE "rapid"
        IN  /\ result' = res
            /\ last_outcome' = outcome
            /\ auth_token' = token
            /\ login_outcome' = IF Contains("auth/login", test.endpoint)
                                THEN Answer(outcome) ELSE login_outcome
            /\ last_request' = Request(test.method, test.endpoint,
                                       FV_critical_headers(auth_token))
            /\ requests_issued' = requests_issued + 1
            /\ total_tests' = Counted(res, total_tests)
            /\ passed_tests' = IF res.status = "SUCCESS" THEN passed_tests + 1
                               ELSE passed_tests
            /\ pc' = Propagate(res, after)
            /\ idx' = IF idx < Len(FV_critical_tests) THEN idx + 1 ELSE 1
    /\ UNCHANGED <<script, rapid_success, success_rate, printed_rate, verdict,
                   exit_code, report>>

\* one iteration of "for method, endpoint, data, description in auth_tests"
FV_AuthTest ==
    /\ script = FV /\ pc = "authenticated"
    /\ \E outcome \in ServiceOutcomes(FV_auth_tests[idx].endpoint) :
        LET test == FV_auth_tests[idx]
            res == FV_test_endpoint(test.method, outcome)
        IN  /\ result' = res
            /\ last_outcome' = outcome
            /\ last_request' = Request(test.method, test.endpoint,
                                       FV_auth_headers(auth_token))
            /\ requests_issued' = requests_issued + 1
            /\ total_tests' = Counted(res, total_tests)
            /\ passed_tests' = IF res.status = "SUCCESS" THEN passed_tests + 1
                               ELSE passed_tests
            /\ pc' = Propagate(res, IF idx < Len(FV_auth_tests)
                                    THEN "authenticated" ELSE "rapid")
            /\ idx' = IF idx < Len(FV_auth_tests) THEN idx + 1 ELSE 1
    /\ UNCHANGED <<script, auth_token, login_outcome, rapid_success,
                   success_rate, printed_rate, verdict, exit_code, report>>

\* one iteration of "for i in range(rapid_total)"
FV_RapidRequest ==
    /\ script = FV /\ pc = "rapid"
    /\ \E outcome \in ServiceOutcomes("/health") :
        LET res == FV_test_endpoint("GET", outcome)
        IN  /\ result' = res
            /\ last_outcome' = outcome
            /\ last_request' = Request("GET", "/health", NoHeader)
            /\ requests_issued' = requests_issued + 1
            /\ rapid_success' = IF res.status = "SUCCESS" THEN rapid_success + 1
                                ELSE rapid_success
            /\ pc' = Propagate(res, IF idx < rapid_total THEN "rapid"
                                    ELSE "summary")
            /\ idx' = IF idx < rapid_total THEN idx + 1 ELSE 1
    /\ UNCHANGED <<script, total_tests, passed_tests, auth_token,
                   login_outcome, success_rate, printed_rate, verdict,
                   exit_code, report>>

\* the final status
FV_VerdictEighty(rate, rapid) ==
    IF RateGE(rate, 80) /\ rapid >= 4 THEN "FULLY SUCCESSFUL"
    ELSE IF RateGE(rate, 70) THEN "MOSTLY ACCESSIBLE"
    ELSE "ACCESSIBILITY ISSUES"
FV_Verdict(rate, rapid) ==
    IF RateGE(rate, 90) /\ rapid >= 4 THEN "FULLY SUCCESSFUL"
    ELSE IF RateGE(rate, 70) THEN "MOSTLY ACCESSIBLE"
    ELSE "ACCESSIBILITY ISSUES"

\* the final results
FV_Summary ==
    /\ script = FV /\ pc = "summary"
    /\ LET rate == GuardedRate(passed_tests, total_tests)
       IN  /\ success_rate' = rate
           /\ printed_rate' = Format1f(rate)
           /\ verdict' = FV_Verdict(rate, rapid_success)
    /\ pc' = "done"
    /\ UNCHANGED <<script, idx, total_tests, passed_tests, auth_token, result,
                   rapid_success, exit_code, report, requests_issued,
                   last_request, last_outcome, login_outcome>>

(***************************************************************************)
(* test_all_20_endpoints.py                                                *)
(*                                                                         *)
(* test_endpoint returns the tuple (success, status_code, text); status    *)
(* holds success, content the sliced text, message "Connection failed".    *)
(***************************************************************************)
T20 == "test_all_20_endpoints"

T20_ContentLimit == 100

T20_endpoints ==
    << Test("GET", "/health"), Test("GET", "/health/deep"),
       Test("GET", "/status"), Test("GET", "/ready"), Test("GET", "/alive"),
       Test("GET", "/metrics"),
       Test("GET", "/api/v1/test"), Test("POST", "/api/v1/public/contact"),
       Test("POST", "/api/v1/auth/login"), Test("POST", "/api/v1/auth/refresh"),
       Test("GET", "/api/v1/auth/profile"), Test("GET", "/api/v1/auth/validate"),
       Test("POST", "/api/v1/auth/logout"),
       Test("POST", "/api/v1/auth/change-password"),
       Test("GET", "/api/v1/dashboard/contacts"),
       Test("GET", "/api/v1/dashboard/contacts/stats"),
       Test("POST", "/api/v1/dashboard/contact"),
       Test("PUT", "/api/v1/dashboard/contacts/1/status"),
       Test("GET", "/api/v1/dashboard/contacts/1"),
       Test("GET", "/api/v1/dashboard/contacts/export"),
       Test("POST", "/api/v1/dashboard/contacts/bulk-update") >>

\* response.status_code < 400
T20_Classify(status_code) == IF status_code < 400 THEN "SUCCESS" ELSE "FAILED"

\* test_endpoint; the bare except returns (False, 0, "Connection failed")
T20_test_endpoint(method, outcome) ==
    IF method \in {"GET", "POST", "PUT"} /\ outcome.kind = "response"
    THEN Result(T20_Classify(outcome.status_code), outcome.status_code,
                Slice(outcome.body, T20_ContentLimit), NoMessage)
    ELSE Result("FAILED", 0, NoContent, "Connection failed")

\* one iteration of "for i, (method, endpoint, data, description) in ..."
T20_EndpointTest ==
    /\ script = T20 /\ pc = "endpoints"
    /\ \E outcome \in PlainOutcomes :
        LET test == T20_endpoints[idx]
            res == T20_test_endpoint(test.method, outcome)
        IN  /\ result' = res
            /\ last_outcome' = outcome
            /\ last_request' = Request(test.method, test.endpoint, NoHeader)
            /\ requests_issued' = requests_issued + 1
            /\ passed_tests' = IF res.status = "SUCCESS" THEN passed_tests + 1
                               ELSE passed_tests
            /\ pc' = Propagate(res, IF idx < Len(T20_endpoints)
                                    THEN "endpoints" ELSE "summary")
            /\ idx' = IF idx < Len(T20_endpoints) THEN idx + 1 ELSE 1
    /\ UNCHANGED <<script, total_tests, auth_token, login_outcome,
                   rapid_success, success_rate, printed_rate, verdict,
                   exit_code, report>>

\* success_rate = (passed_tests / total_tests) * 100
UnguardedRate(passed, total) == Rate(passed * 100, total)

T20_Verdict(rate) ==
    IF rate.num = 100 * rate.den THEN "FULLY OPERATIONAL"
    ELSE IF RateGE(rate, 80) THEN "MOSTLY OPERATIONAL"
    ELSE "NEEDS ATTENTION"

\* the summary
T20_Summary ==
    /\ script = T20 /\ pc = "summary"
    /\ LET rate == UnguardedRate(passed_tests, total_tests)
       IN  /\ success_rate' = rate
           /\ printed_rate' = Format1f(rate)
           /\ verdict' = T20_Verdict(rate)
    /\ pc' = "done"
    /\ UNCHANGED <<script, idx, total_tests, passed_tests, auth_token, result,
                   rapid_success, exit_code, report, requests_issued,
                   last_request, last_outcome, login_outcome>>

(***************************************************************************)
(* test-contact-api.py                                                     *)
(*                                                                         *)
(* Every test function returns a bool; status holds it ("SUCCESS" for      *)
(* True, "FAILED" for False).                                              *)
(***************************************************************************)
TCA == "test-contact-api"

\* the list tests of run_all_tests
TCA_tests ==
    << "test_health_check", "test_test_endpoint", "test_contact_submission",
       "test_invalid_contact_submission", "test_honeypot_detection" >>

\* the request each test function sends; none carries an Authorization header
TCA_request(name) ==
    CASE name = "test_health_check" -> Request("GET", "/health", NoHeader)
      [] name = "test_test_endpoint" -> Request("GET", "/api/v1/test", NoHeader)
      [] OTHER -> Request("POST", "/api/v1/public/contact", NoHeader)

\* documents the service answers to these tests: one of each shape
TCA_Outcomes ==
    {Outcome("response", c, Body(sh, None, 30, 0)) :
        c \in StatusCodes, sh \in (JsonShapes \ {"token"}) \cup {"html"}}
    \cup {Outcome(k, 0, NoBody) : k \in {"timeout", "connection_error", "exception"}}

\* response.json() returns a dict
DecodesToDict(body) ==
    body.shape \in {"token", "notoken", "nodata", "datanull", "datastr"}

\* response.json() raises (the body is not a JSON document)
DecodeRaises(body) == body.shape \notin JsonShapes

\* test_health_check and test_test_endpoint: True when the status is 200
\* and response.json() gives an object with .get
TCA_status_200(outcome) ==
    /\ outcome.kind = "response"
    /\ outcome.status_code = 200
    /\ DecodesToDict(outcome.body)

\* test_contact_submission.  stdlib is TRUE when the error response.json()
\* raises is a json.JSONDecodeError (the inner except clause catches it and
\* the test returns True); with simplejson installed it is not, the outer
\* except clause catches it and the test returns False.  A decoded value
\* without .get, or a truthy 'data' without .get, raises AttributeError,
\* which only the outer clause catches.
TCA_contact_submission(outcome, stdlib) ==
    /\ outcome.kind = "response"
    /\ outcome.status_code \in {200, 201}
    /\ \/ DecodeRaises(outcome.body) /\ stdlib
       \/ DecodesToDict(outcome.body) /\ outcome.body.shape # "datastr"

\* test_invalid_contact_submission and test_honeypot_detection
TCA_status_400(outcome) ==
    outcome.kind = "response" /\ outcome.status_code = 400

TCA_test_func(name, outcome, stdlib) ==
    CASE name \in {"test_health_check", "test_test_endpoint"} ->
            TCA_status_200(outcome)
      [] name = "test_contact_submission" ->
            TCA_contact_submission(outcome, stdlib)
      [] OTHER -> TCA_status_400(outcome)

\* one iteration of "for test_name, test_func in tests"
TCA_RunTest ==
    /\ script = TCA /\ pc = "tests"
    /\ \E outcome \in TCA_Outcomes, stdlib \in BOOLEAN :
        LET ok == TCA_test_func(TCA_tests[idx], outcome, stdlib)
        IN  /\ result' = Result(IF ok THEN "SUCCESS" ELSE "FAILED", NoCode,
                                NoContent, NoMessage)
            /\ last_outcome' = outcome
            /\ last_request' = TCA_request(TCA_tests[idx])
            /\ requests_issued' = requests_issued + 1
            /\ passed_tests' = IF ok THEN passed_tests + 1 ELSE passed_tests
            /\ pc' = IF idx < Len(TCA_tests) THEN "tests" ELSE "summary"
            /\ idx' = IF idx < Len(TCA_tests) THEN idx + 1 ELSE 1
    /\ UNCHANGED <<script, total_tests, auth_token, login_outcome,
                   rapid_success, success_rate, printed_rate, verdict,
                   exit_code, report>>

\* return passed == total, then sys.exit(0) or sys.exit(1)
TCA_ExitCodeAnyPassed(passed, total) == IF passed > 0 THEN 0 ELSE 1
TCA_ExitCode(passed, total) == IF passed = total THEN 0 ELSE 1

\* the end of run_all_tests and of the script
TCA_Exit ==
    /\ script = TCA /\ pc = "summary"
    /\ exit_code' = TCA_ExitCode(passed_tests, total_tests)
    /\ verdict' = IF passed_tests = total_tests THEN "ALL TESTS PASSED"
                  ELSE "tests failed"
    /\ pc' = "done"
    /\ UNCHANGED <<script, idx, total_tests, passed_tests, auth_token, result,
                   rapid_success, success_rate, printed_rate, report,
                   requests_issued, last_request, last_outcome, login_outcome>>

(***************************************************************************)
(* The diagnostic scripts.  Besides HTTP calls they run ping, connect to   *)
(* TCP ports and run commands over ssh; these calls end as follows.        *)
(***************************************************************************)
\* subprocess.run(['ping', ...]): "TTL=" in the output, not in the output,
\* or an exception (TimeoutExpired included)
PingOutcomes ==
    {Outcome(k, 0, NoBody) : k \in {"replied", "noreply", "exception"}}

\* socket.create_connection: connects, raises socket.timeout, raises
\* ConnectionRefusedError, or raises another exception
PortOutcomes ==
    {Outcome(k, 0, NoBody) : k \in {"open", "timeout", "refused", "exception"}}

\* subprocess.run(ssh_cmd, ...): returns with an exit code, raises
\* TimeoutExpired, or raises another exception
SshOutcomes ==
    {Outcome("exit", c, NoBody) : c \in {0, 1, 255}}
    \cup {Outcome(k, 0, NoBody) : k \in {"timeout", "exception"}}

\* the line a diagnostic prints for a check: the mark in front of it
\* ("OK" for the check mark, "FAIL" for the cross, "TIMEOUT" for the
\* stopwatch, "" for none), its wording, and the captured data it shows
Report(mark, text, shows) == [mark |-> mark, text |-> text, shows |-> shows]
NoReport == Report("", "", "")

(***************************************************************************)
(* aws_diagnostic_script.py                                                *)
(***************************************************************************)
AWS == "aws_diagnostic_script"

AWS_ports_to_test == <<22, 80, 8081>>

AWS_ssh_commands ==
    << "Basic SSH Test", "System Uptime", "Memory Usage", "Disk Usage",
       "Service Status", "Process Check", "Port Check" >>

AWS_endpoints == << "/health", "/status", "/ready", "/alive", "/api/v1/test" >>

AWS_checks ==
    << "Memory Usage", "Disk Usage", "CPU Load", "Service Logs",
       "System Errors", "OOM Kills" >>

\* test_network_connectivity: the ping
AWS_ping_line(outcome) ==
    CASE outcome.kind = "replied" -> Report("OK", "ICMP: Responsive", "")
      [] outcome.kind = "noreply" -> Report("FAIL", "ICMP: No response", "stdout")
      [] OTHER -> Report("FAIL", "ICMP: Error", "exception")

AWS_Ping ==
    /\ script = AWS /\ pc = "ping"
    /\ \E outcome \in PingOutcomes :
        /\ report' = AWS_ping_line(outcome)
        /\ last_outcome' = outcome
    /\ pc' = "ports"
    /\ UNCHANGED <<script, idx, total_tests, passed_tests, auth_token, result,
                   rapid_success, success_rate, printed_rate, verdict,
                   exit_code, requests_issued, last_request, login_outcome>>

\* test_network_connectivity: one port
AWS_port_lineCatchAll(outcome) ==
    CASE outcome.kind = "open" -> Report("OK", "Open", "")
      [] OTHER -> Report("FAIL", "Error", "exception")
AWS_port_line(outcome) ==
    CASE outcome.kind = "open" -> Report("OK", "Open", "")
      [] outcome.kind = "timeout" -> Report("FAIL", "Timeout", "")
      [] outcome.kind = "refused" -> Report("FAIL", "Connection refused", "")
      [] OTHER -> Report("FAIL", "Error", "exception")

AWS_PortTest ==
    /\ script = AWS /\ pc = "ports"
    /\ \E outcome \in PortOutcomes :
        /\ report' = AWS_port_line(outcome)
        /\ last_outcome' = outcome
    /\ pc' = IF idx < Len(AWS_ports_to_test) THEN "ports" ELSE "ssh"
    /\ idx' = IF idx < Len(AWS_ports_to_test) THEN idx + 1 ELSE 1
    /\ UNCHANGED <<script, total_tests, passed_tests, auth_token, result,
                   rapid_success, success_rate, printed_rate, verdict,
                   exit_code, requests_issued, last_request, login_outcome>>

\* test_ssh_connectivity: one command
AWS_ssh_line(outcome) ==
    CASE outcome.kind = "exit" /\ outcome.status_code = 0 ->
            Report("OK", "Success", "stdout")
      [] outcome.kind = "exit" /\ outcome.status_code # 0 ->
            Report("FAIL", "Failed", "stderr")
      [] outcome.kind = "timeout" -> Report("TIMEOUT", "Timeout", "")
      [] OTHER -> Report("FAIL", "Error", "exception")

AWS_SshTest ==
    /\ script = AWS /\ pc = "ssh"
    /\ \E outcome \in SshOutcomes :
        /\ report' = AWS_ssh_line(outcome)
        /\ last_outcome' = outcome
    /\ pc' = IF idx < Len(AWS_ssh_commands) THEN "ssh" ELSE "http"
    /\ idx' = IF idx < Len(AWS_ssh_commands) THEN idx + 1 ELSE 1
    /\ UNCHANGED <<script, total_tests, passed_tests, auth_token, result,
                   rapid_success, success_rate, printed_rate, verdict,
                   exit_code, requests_issued, last_request, login_outcome>>

\* test_http_endpoints: one endpoint; every response is printed with the
\* check mark and its status code
AWS_http_line(outcome) ==
    CASE outcome.kind = "response" -> Report("OK", "Status", "status_code")
      [] outcome.kind = "timeout" -> Report("TIMEOUT", "Timeout (5s)", "")
      [] outcome.kind = "connection_error" ->
            Report("FAIL", "Connection Error", "")
      [] OTHER -> Report("FAIL", "Error", "exception")

AWS_HttpTest ==
    /\ script = AWS /\ pc = "http"
    /\ \E outcome \in PlainOutcomes :
        /\ report' = AWS_http_line(outcome)
        /\ last_outcome' = outcome
    /\ last_request' = Request("GET", AWS_endpoints[idx], NoHeader)
    /\ requests_issued' = requests_issued + 1
    /\ pc' = IF idx < Len(AWS_endpoints) THEN "http" ELSE "issues"
    /\ idx' = IF idx < Len(AWS_endpoints) THEN idx + 1 ELSE 1
    /\ UNCHANGED <<script, total_tests, passed_tests, auth_token, result,
                   rapid_success, success_rate, printed_rate, verdict,
                   exit_code, login_outcome>>

\* check_common_issues: one check; TimeoutExpired falls under
\* "except Exception"
AWS_issue_line(outcome) ==
    CASE outcome.kind = "exit" /\ outcome.status_code = 0 ->
            Report("OK", "", "stdout")
      [] outcome.kind = "exit" /\ outcome.status_code # 0 ->
            Report("FAIL", "Failed to check", "")
      [] OTHER -> Report("FAIL", "Error checking", "exception")

AWS_IssueCheck ==
    /\ script = AWS /\ pc = "issues"
    /\ \E outcome \in SshOutcomes :
        /\ report' = AWS_issue_line(outcome)
        /\ last_outcome' = outcome
    /\ pc' = IF idx < Len(AWS_checks) THEN "issues" ELSE "summary"
    /\ idx' = IF idx < Len(AWS_checks) THEN idx + 1 ELSE 1
    /\ UNCHANGED <<script, total_tests, passed_tests, auth_token, result,
                   rapid_success, success_rate, printed_rate, verdict,
                   exit_code, requests_issued, last_request, login_outcome>>

\* generate_diagnosis_report: the RECOMMENDED ACTIONS that end the report
AWS_Recommend ==
    /\ script = AWS /\ pc = "summary"
    /\ verdict' = "RECOMMENDED ACTIONS"
    /\ pc' = "done"
    /\ UNCHANGED <<script, idx, total_tests, passed_tests, auth_token, result,
                   rapid_success, success_rate, printed_rate, exit_code,
                   report, requests_issued, last_request, last_outcome,
                   login_outcome>>

(***************************************************************************)
(* simple_diagnostic.py                                                    *)
(*                                                                         *)
(* The three helpers return a bool or a tuple starting with a bool; status *)
(* holds it ("SUCCESS" for True, "FAILED" for False), status_code the      *)
(* second element of test_http_endpoint's tuple, message the stderr        *)
(* element of test_ssh_command's tuple.                                    *)
(***************************************************************************)
SD == "simple_diagnostic"

SD_ContentLimit == 100

SD_ports == <<22, 80, 8081>>

SD_ssh_tests ==
    << "Basic SSH", "Uptime", "Memory", "Disk", "Service Status",
       "Process Check", "Port 8081" >>

SD_endpoints == << "/health", "/status", "/api/v1/test" >>

SD_health_checks ==
    << "Memory Usage", "Disk Usage", "Load Average", "Recent Errors",
       "OOM Events" >>

\* test_port_connectivity
SD_test_port_connectivity(outcome) ==
    IF outcome.kind = "open"
    THEN Result("SUCCESS", NoCode, NoContent, NoMessage)
    ELSE Result("FAILED", NoCode, NoContent, NoMessage)

\* test_ssh_command
SD_test_ssh_command(outcome) ==
    IF outcome.kind = "exit"
    THEN Result(IF outcome.status_code = 0 THEN "SUCCESS" ELSE "FAILED",
                NoCode, NoContent, "stderr")
    ELSE Result("FAILED", NoCode, NoContent, "Timeout or connection error")

\* test_http_endpoint: True for every response
SD_test_http_endpoint(outcome) ==
    IF outcome.kind = "response"
    THEN Result("SUCCESS", outcome.status_code,
                Slice(outcome.body, SD_ContentLimit), NoMessage)
    ELSE Result("FAILED", 0, NoContent, "Connection failed")

\* main: the ping
SD_ping_line(outcome) ==
    CASE outcome.kind = "replied" -> Report("", "PING: SUCCESS", "")
      [] outcome.kind = "noreply" -> Report("", "PING: FAILED", "")
      [] OTHER -> Report("", "PING: ERROR", "")

SD_Ping ==
    /\ script = SD /\ pc = "ping"
    /\ \E outcome \in PingOutcomes :
        /\ report' = SD_ping_line(outcome)
        /\ last_outcome' = outcome
    /\ pc' = "ports"
    /\ UNCHANGED <<script, idx, total_tests, passed_tests, auth_token, result,
                   rapid_success, success_rate, printed_rate, verdict,
                   exit_code, requests_issued, last_request, login_outcome>>

\* main: one port
SD_PortTest ==
    /\ script = SD /\ pc = "ports"
    /\ \E outcome \in PortOutcomes :
        LET res == SD_test_port_connectivity(outcome)
        IN  /\ result' = res
            /\ last_outcome' = outcome
            /\ report' = IF res.status = "SUCCESS" THEN Report("", "OPEN", "")
                         ELSE Report("", "CLOSED/TIMEOUT", "")
    /\ pc' = IF idx < Len(SD_ports) THEN "ports" ELSE "ssh"
    /\ idx' = IF idx < Len(SD_ports) THEN idx + 1 ELSE 1
    /\ UNCHANGED <<script, total_tests, passed_tests, auth_token,
                   rapid_success, success_rate, printed_rate, verdict,
                   exit_code, requests_issued, last_request, login_outcome>>

\* main: one ssh test
SD_SshTest ==
    /\ script = SD /\ pc = "ssh"
    /\ \E outcome \in SshOutcomes :
        LET res == SD_test_ssh_command(outcome)
        IN  /\ result' = res
            /\ last_outcome' = outcome
            /\ report' = IF res.status = "SUCCESS" THEN Report("", "", "stdout")
                         ELSE Report("", "FAILED", "stderr")
    /\ pc' = IF idx < Len(SD_ssh_tests) THEN "ssh" ELSE "http"
    /\ idx' = IF idx < Len(SD_ssh_tests) THEN idx + 1 ELSE 1
    /\ UNCHANGED <<script, total_tests, passed_tests, auth_token,
                   rapid_success, success_rate, printed_rate, verdict,
                   exit_code, requests_issued, last_request, login_outcome>>

\* main: one HTTP endpoint
SD_HttpTest ==
    /\ script = SD /\ pc = "http"
    /\ \E outcome \in PlainOutcomes :
        LET res == SD_test_http_endpoint(outcome)
        IN  /\ result' = res
            /\ last_outcome' = outcome
            /\ report' = IF res.status = "SUCCESS"
                         THEN Report("", "HTTP", "status_code")
                         ELSE Report("", "FAILED", "")
    /\ last_request' = Request("GET", SD_endpoints[idx], NoHeader)
    /\ requests_issued' = requests_issued + 1
    /\ pc' = IF idx < Len(SD_endpoints) THEN "http" ELSE "health"
    /\ idx' = IF idx < Len(SD_endpoints) THEN idx + 1 ELSE 1
    /\ UNCHANGED <<script, total_tests, passed_tests, auth_token,
                   rapid_success, success_rate, printed_rate, verdict,
                   exit_code, login_outcome>>

\* main: one system health check
SD_HealthCheck ==
    /\ script = SD /\ pc = "health"
    /\ \E outcome \in SshOutcomes :
        LET res == SD_test_ssh_command(outcome)
        IN  /\ result' = res
            /\ last_outcome' = outcome
            /\ report' = IF res.status = "SUCCESS" THEN Report("", "", "stdout")
                         ELSE Report("", "UNABLE_TO_CHECK", "")
    /\ pc' = IF idx < Len(SD_health_checks) THEN "health" ELSE "summary"
    /\ idx' = IF idx < Len(SD_health_checks) THEN idx + 1 ELSE 1
    /\ UNCHANGED <<script, total_tests, passed_tests, auth_token,
                   rapid_success, success_rate, printed_rate, verdict,
                   exit_code, requests_issued, last_request, login_outcome>>

\* main: the DIAGNOSIS SUMMARY that ends the report
SD_Summary ==
    /\ script = SD /\ pc = "summary"
    /\ verdict' = "DIAGNOSIS SUMMARY"
    /\ pc' = "done"
    /\ UNCHANGED <<script, idx, total_tests, passed_tests, auth_token, result,
                   rapid_success, success_rate, printed_rate, exit_code,
                   report, requests_issued, last_request, last_outcome,
                   login_outcome>>

(***************************************************************************)
(* The run.                                                                *)
(***************************************************************************)
Scripts == {CT, ST, FV, T20, TCA, AWS, SD}

StartOf(s) ==
    CASE s = CT -> "categories"
      [] s = ST -> "tests"
      [] s = FV -> "critical"
      [] s = T20 -> "endpoints"
      [] s = TCA -> "tests"
      [] s = AWS -> "ping"
      [] s = SD -> "ping"

\* total_tests = len(endpoints) and total = len(tests) precede the loops of
\* test_all_20_endpoints and test-contact-api
InitialTotalTwenty(s) ==
    CASE s = T20 -> 20
      [] s = TCA -> Len(TCA_tests)
      [] OTHER -> 0
InitialTotal(s) ==
    CASE s = T20 -> Len(T20_endpoints)
      [] s = TCA -> Len(TCA_tests)
      [] OTHER -> 0

Init ==
    /\ script \in Scripts
    /\ pc = StartOf(script)
    /\ idx = 1
    /\ total_tests = InitialTotal(script)
    /\ passed_tests = 0
    /\ auth_token = None
    /\ result = NoResult
    /\ rapid_success = 0
    /\ success_rate = NoRate
    /\ printed_rate = -1
    /\ verdict = ""
    /\ exit_code = -1
    /\ report = NoReport
    /\ requests_issued = 0
    /\ last_request = NoRequest
    /\ last_outcome = NoOutcome
    /\ login_outcome = NoOutcome

Next ==
    \/ CT_CategoryTest
    \/ CT_DashboardTest
    \/ CT_Summary
    \/ ST_Test
    \/ ST_Login
    \/ ST_DashboardTest
    \/ ST_Summary
    \/ FV_CriticalTest
    \/ FV_AuthTest
    \/ FV_RapidRequest
    \/ FV_Summary
    \/ T20_EndpointTest
    \/ T20_Summary
    \/ TCA_RunTest
    \/ TCA_Exit
    \/ AWS_Ping
    \/ AWS_PortTest
    \/ AWS_SshTest
    \/ AWS_HttpTest
    \/ AWS_IssueCheck
    \/ AWS_Recommend
    \/ SD_Ping
    \/ SD_PortTest
    \/ SD_SshTest
    \/ SD_HttpTest
    \/ SD_HealthCheck
    \/ SD_Summary

Spec == Init /\ [][Next]_vars

\* every call returns, raises or times out, so a run that can take a step
\* eventually takes one
LiveSpec == Init /\ [][Next]_vars /\ WF_vars(Next)

(***************************************************************************)
(* final_verification run against a service that requires the bearer token *)
(* on its dashboard endpoints: a dashboard request sent without an         *)
(* Authorization header is never answered with a status below 400.         *)
(***************************************************************************)
RejectsUnauthenticated ==
    (/\ Contains("/api/v1/dashboard/", last_request'.endpoint)
     /\ last_request'.authorization = NoHeader)
        => ~(last_outcome'.kind = "response" /\ last_outcome'.status_code < 400)

FV_Init == Init /\ script = FV

FV_NextRejecting ==
    \/ FV_CriticalTest /\ RejectsUnauthenticated
    \/ FV_AuthTest /\ RejectsUnauthenticated
    \/ FV_RapidRequest
    \/ FV_Summary

FV_RejectingSpec == FV_Init /\ [][FV_NextRejecting]_vars

(***************************************************************************)
(* Properties.                                                             *)
(***************************************************************************)
\* the scripts that keep total and passed counters
Counting == {CT, ST, FV, T20, TCA}

\* the scripts that print a success rate
Rating == {CT, ST, FV, T20}

\* the scripts that treat the login check specially
LoginScripts == {CT, ST, FV}

LoginEndpoint == "/api/v1/auth/login"

\* the endpoints that require the bearer token: the dashboard endpoints and
\* the auth endpoints other than login
RequiresAuth(endpoint) ==
    \/ Contains("/api/v1/dashboard/", endpoint)
    \/ endpoint \in {"/api/v1/auth/profile", "/api/v1/auth/validate",
                     "/api/v1/auth/refresh", "/api/v1/auth/logout",
                     "/api/v1/auth/change-password"}

\* the login check of this run has been made
LoginDone == login_outcome.kind # "none"

\* the state right after the login check
LoginJustDone ==
    /\ script \in LoginScripts
    /\ last_request.endpoint = LoginEndpoint
    /\ pc # "aborted"

\* the last call returned an HTTP response with this property of its status
Answered(script_set) ==
    /\ script \in script_set
    /\ last_outcome.kind = "response"

----------------------------------------------------------------------------
\* C1: in every counting script 0 <= passed <= total holds after every
\* check, and the success rate a run reports lies between 0 and 100.
C1_CountersInRange ==
    script \in Counting =>
        /\ 0 <= passed_tests /\ passed_tests <= total_tests
        /\ (pc = "done" /\ script \in Rating) =>
              /\ 0 <= success_rate.num
              /\ success_rate.num <= 100 * success_rate.den
              /\ 0 <= printed_rate /\ printed_rate <= 1000

\* a run of test_all_20_endpoints in which every check passed
C1_Witness ==
    /\ script = T20 /\ pc = "done"
    /\ passed_tests = Len(T20_endpoints)
    /\ printed_rate = 1000

----------------------------------------------------------------------------
\* C2 as stated: at the end of every run the reported total equals the
\* number of HTTP requests the run issued, the five rapid /health requests
\* of final_verification included.
C2_TotalCountsEveryRequest ==
    (script \in Counting /\ pc = "done") => total_tests = requests_issued

\* C2 as amended: at the end of every run the reported total equals the
\* number of checks executed from the script's check lists, the dashboard
\* checks of comprehensive_test and simple_test included when they run; the
\* five rapid /health requests of final_verification are issued but not
\* counted in total.
C2_TotalCountsListedChecks ==
    (script \in Counting /\ pc = "done") =>
        /\ script # FV => total_tests = requests_issued
        /\ script = FV => total_tests = requests_issued - rapid_total
        /\ script = CT =>
              total_tests = Len(CT_tests)
                  + (IF Truthy(auth_token) THEN Len(CT_dashboard_tests) ELSE 0)
        /\ script = ST =>
              total_tests = Len(ST_tests)
                  + (IF Truthy(auth_token) THEN Len(ST_dashboard_tests) ELSE 0)

\* a run of final_verification that made all 9 listed checks and the 5
\* rapid requests
C2_Witness ==
    /\ script = FV /\ pc = "done"
    /\ total_tests = 9 /\ requests_issued = 14

----------------------------------------------------------------------------
\* C3: whenever the login check succeeds and its response body is JSON
\* containing data.token, auth_token equals that token after the login
\* check, whatever the length of the body.
C3_TokenStoredOnSuccess ==
    (/\ LoginJustDone
     /\ last_outcome.kind = "response"
     /\ last_outcome.status_code < 400
     /\ last_outcome.body.shape = "token")
        => auth_token = last_outcome.body.token

----------------------------------------------------------------------------
\* C4: a login check answered with a status >= 400, or ending in a
\* timeout, connection error or other exception, leaves auth_token unset
\* for the rest of the run, whatever the body contains.
C4_FailedLoginLeavesTokenUnset ==
    (/\ script \in LoginScripts
     /\ LoginDone
     /\ \/ login_outcome.kind # "response"
        \/ login_outcome.status_code >= 400)
        => auth_token = None

\* the login was answered 401 with a body that contains data.token
C4_Witness ==
    /\ LoginJustDone
    /\ login_outcome = Outcome("response", 401, NoBody)
    /\ last_outcome.body.shape = "token"
    /\ Truthy(last_outcome.body.token)

----------------------------------------------------------------------------
\* C5 as stated: in every script a check against an endpoint that requires
\* authentication is executed only if the login check stored a token.
C5_AuthChecksOnlyWithToken ==
    RequiresAuth(last_request.endpoint) => Truthy(auth_token)

\* C5 as amended: in comprehensive_test and simple_test, and for the
\* auth_tests list of final_verification, a check against an endpoint that
\* requires authentication is executed only if the login check stored a
\* non-empty token; without one these checks are skipped and not counted
\* (total is 9, 6 and 7).  The two dashboard checks of final_verification's
\* critical list and the auth and dashboard checks of
\* test_all_20_endpoints are always executed, without an Authorization
\* header, and counted.
C5_ListedAuthChecksOnlyWithToken ==
    /\ (script \in {CT, ST} /\ RequiresAuth(last_request.endpoint))
          => Truthy(auth_token) /\ LoginDone
    /\ (script = FV /\ last_request.endpoint \in
                          {"/api/v1/auth/profile", "/api/v1/dashboard/contact"})
          => Truthy(auth_token) /\ LoginDone
    /\ (pc = "done" /\ ~Truthy(auth_token)) =>
          /\ script = CT => total_tests = Len(CT_tests)
          /\ script = ST => total_tests = Len(ST_tests)
          /\ script = FV => total_tests = Len(FV_critical_tests)
    /\ (script = FV /\ pc = "done") => total_tests >= Len(FV_critical_tests)
    /\ (script = T20 /\ pc = "done") => requests_issued = Len(T20_endpoints)
    /\ (script = T20 \/ (script = FV /\ pc = "critical"))
          => last_request.authorization = NoHeader

\* comprehensive_test ended without a token after a login that succeeded:
\* the three dashboard checks were skipped
C5_Witness ==
    /\ script = CT /\ pc = "done"
    /\ login_outcome = Outcome("response", 200, NoBody)
    /\ auth_token = None
    /\ total_tests = Len(CT_tests)
    /\ ~RequiresAuth(last_request.endpoint)

----------------------------------------------------------------------------
\* C6: a request carries an Authorization header only if the login check
\* of the run stored a token, and then the header is exactly 'Bearer '
\* followed by that token; while auth_token is unset or empty no request
\* carries the header.
C6_NoFabricatedToken ==
    /\ last_request.authorization # NoHeader =>
          /\ Truthy(auth_token)
          /\ login_outcome.kind = "response"
          /\ last_request.authorization = "Bearer " \o Str(auth_token)
    /\ ~Truthy(auth_token) => last_request.authorization = NoHeader

\* a dashboard request sent with the token the login returned
C6_Witness ==
    /\ last_request.authorization = "Bearer abc123"
    /\ RequiresAuth(last_request.endpoint)
    /\ auth_token = JStr("abc123")

----------------------------------------------------------------------------
\* C7: test_endpoint of comprehensive_test, simple_test, final_verification
\* and test_all_20_endpoints classifies a response as success if and only
\* if its status code is below 400 and records that status code; a
\* response with status >= 400 (503 for one) does not raise passed.
C7_Classified ==
    Answered({CT, ST, FV, T20}) =>
        /\ result.status = "SUCCESS" <=> last_outcome.status_code < 400
        /\ result.status = "FAILED" <=> last_outcome.status_code >= 400
        /\ result.status_code = last_outcome.status_code

C7_NotCounted ==
    (/\ requests_issued' # requests_issued
     /\ script \in {CT, ST, FV, T20}
     /\ last_outcome'.kind = "response"
     /\ last_outcome'.status_code >= 400)
        => /\ passed_tests' = passed_tests
           /\ rapid_success' = rapid_success

C7_SuccessIffBelow400 == [](C7_Classified) /\ [][C7_NotCounted]_vars

\* a check was answered 503 and recorded as failed with code 503
C7_Witness ==
    /\ Answered({CT, ST, FV, T20})
    /\ last_outcome.status_code = 503
    /\ result.status = "FAILED" /\ result.status_code = 503

----------------------------------------------------------------------------
\* C8: the HTTP checks of the diagnostic scripts classify a response with
\* status >= 400 (503 for one) as failed and never report it as a success.
C8_DiagnosticsFailOn4xx5xx ==
    (/\ Answered({AWS, SD})
     /\ last_outcome.status_code >= 400)
        => /\ script = AWS => report.mark # "OK"
           /\ script = SD => result.status = "FAILED" /\ report.text = "FAILED"

----------------------------------------------------------------------------
\* the lowest verdict of a script
LowestVerdict(s) ==
    CASE s \in {CT, ST} -> "ISSUES DETECTED"
      [] s = FV -> "ACCESSIBILITY ISSUES"
      [] s = T20 -> "NEEDS ATTENTION"
      [] OTHER -> "tests failed"

\* the run has printed its final summary
Finished == pc = "done"

\* C9: every run of every script eventually reaches its final summary, no
\* outcome of a single check aborts it; a run in which every check failed
\* reports a success rate of 0 and the lowest verdict.
C9_AllFailedSummary ==
    (Finished /\ script \in Counting /\ passed_tests = 0) =>
        /\ verdict = LowestVerdict(script)
        /\ script \in Rating => success_rate.num = 0 /\ printed_rate = 0
        /\ script = TCA => exit_code = 1

C9_AlwaysReachesSummary ==
    /\ <>Finished
    /\ [](pc # "aborted")
    /\ [](C9_AllFailedSummary)

\* final_verification finished after every call raised an exception
C9_Witness ==
    /\ Finished /\ script = FV
    /\ passed_tests = 0 /\ total_tests = Len(FV_critical_tests)
    /\ rapid_success = 0
    /\ last_outcome.kind = "exception"
    /\ login_outcome.kind = "exception"
    /\ printed_rate = 0

----------------------------------------------------------------------------
\* C10: the reported success rate is passed / total * 100 rounded to one
\* decimal (the multiple of 0.1 nearest to it), 0 when total is 0; a run
\* with 7 counted checks of which 5 succeeded reports 71.4.
C10_RateRounded ==
    /\ (Finished /\ script \in Rating) =>
          /\ total_tests > 0 =>
                /\ 2 * (printed_rate * total_tests - 1000 * passed_tests)
                      <= total_tests
                /\ 2 * (1000 * passed_tests - printed_rate * total_tests)
                      <= total_tests
          /\ total_tests = 0 => printed_rate = 0
          /\ (total_tests = 7 /\ passed_tests = 5) => printed_rate = 714
    /\ Format1f(GuardedRate(0, 0)) = 0

\* final_verification finished with 5 of 7 checks passed
C10_Witness ==
    /\ Finished /\ script = FV
    /\ total_tests = 7 /\ passed_tests = 5
    /\ printed_rate = 714

----------------------------------------------------------------------------
\* C11 as stated: in final_verification the verdict is a function of the
\* success rate alone: FULLY SUCCESSFUL for a rate >= 90, MOSTLY ACCESSIBLE
\* for 70 <= rate < 90, ACCESSIBILITY ISSUES for a rate < 70.
C11_VerdictByRateAlone ==
    (Finished /\ script = FV) =>
        /\ 100 * passed_tests >= 90 * total_tests
              => verdict = "FULLY SUCCESSFUL"
        /\ (/\ 100 * passed_tests >= 70 * total_tests
            /\ 100 * passed_tests < 90 * total_tests)
              => verdict = "MOSTLY ACCESSIBLE"
        /\ 100 * passed_tests < 70 * total_tests
              => verdict = "ACCESSIBILITY ISSUES"

\* C11 as amended: in final_verification the verdict is a function of the
\* success rate and of rapid_success: FULLY SUCCESSFUL exactly when the rate
\* is >= 90 and at least 4 of the 5 rapid requests succeeded, MOSTLY
\* ACCESSIBLE for every other run with a rate >= 70 (a rate >= 90 with
\* fewer than 4 rapid successes included), ACCESSIBILITY ISSUES exactly
\* when the rate is < 70.
C11_VerdictByRateAndRapid ==
    (Finished /\ script = FV) =>
        LET high == 100 * passed_tests >= 90 * total_tests
            mid == 100 * passed_tests >= 70 * total_tests
        IN  /\ verdict = "FULLY SUCCESSFUL" <=> (high /\ rapid_success >= 4)
            /\ verdict = "MOSTLY ACCESSIBLE"
                  <=> (mid /\ ~(high /\ rapid_success >= 4))
            /\ verdict = "ACCESSIBILITY ISSUES" <=> ~mid

\* every listed check passed but only 3 rapid requests succeeded
C11_Witness ==
    /\ Finished /\ script = FV
    /\ passed_tests = total_tests
    /\ rapid_success = 3
    /\ verdict = "MOSTLY ACCESSIBLE"

----------------------------------------------------------------------------
\* C12: in comprehensive_test and simple_test the final verdict is
\* SUCCESSFUL if and only if the success rate is >= 80 and ISSUES DETECTED
\* otherwise; every run prints exactly one of the two.
C12_VerdictAtEighty ==
    (Finished /\ script \in {CT, ST}) =>
        /\ success_rate = Rate(100 * passed_tests, total_tests)
        /\ verdict \in {"SUCCESSFUL", "ISSUES DETECTED"}
        /\ verdict = "SUCCESSFUL" <=> 100 * passed_tests >= 80 * total_tests
        /\ verdict = "ISSUES DETECTED" <=> 100 * passed_tests < 80 * total_tests

\* comprehensive_test finished with 10 of 12 checks passed (83.3%)
C12_Witness ==
    /\ Finished /\ script = CT
    /\ total_tests = 12 /\ passed_tests = 10
    /\ verdict = "SUCCESSFUL"

----------------------------------------------------------------------------
\* C13: test-contact-api exits with status 0 if and only if all five test
\* functions returned True and with status 1 otherwise; the five tests are
\* always run, in their listed order, and a failing test does not keep the
\* later ones from running.
C13_InOrder ==
    script = TCA =>
        /\ pc = "tests" => requests_issued = idx - 1
        /\ requests_issued > 0 =>
              last_request = TCA_request(TCA_tests[requests_issued])
        /\ Finished =>
              /\ requests_issued = Len(TCA_tests)
              /\ exit_code \in {0, 1}
              /\ exit_code = 0 <=> passed_tests = Len(TCA_tests)

C13_EveryTestCounts ==
    (script = TCA /\ requests_issued' # requests_issued) =>
        /\ requests_issued' = requests_issued + 1
        /\ result'.status = "SUCCESS" => passed_tests' = passed_tests + 1
        /\ result'.status # "SUCCESS" => passed_tests' = passed_tests
        /\ pc' = IF requests_issued' < Len(TCA_tests) THEN "tests" ELSE "summary"

C13_ExitCode == [](C13_InOrder) /\ [][C13_EveryTestCounts]_vars

\* the run ended with exit status 1 although its last test passed: an
\* earlier test failed and the later ones were run all the same
C13_Witness ==
    /\ Finished /\ script = TCA
    /\ passed_tests = 4
    /\ result.status = "SUCCESS"
    /\ exit_code = 1

----------------------------------------------------------------------------
\* C14: in test-contact-api, test_contact_submission (the third test) passes
\* exactly when the service answers with status 200 or 201, and
\* test_honeypot_detection (the fifth test) passes exactly when the service
\* answers with status 400; any other status or an exception of the call
\* makes the test fail.
C14_PassByStatusAlone ==
    (script = TCA /\ requests_issued > 0) =>
        LET name == TCA_tests[requests_issued]
            answered(codes) == /\ last_outcome.kind = "response"
                               /\ last_outcome.status_code \in codes
        IN  /\ name = "test_contact_submission" =>
                  (result.status = "SUCCESS" <=> answered({200, 201}))
            /\ name = "test_honeypot_detection" =>
                  (result.status = "SUCCESS" <=> answered({400}))

----------------------------------------------------------------------------
\* C15: in every test_endpoint implementation a call that times out yields
\* the outcome TIMEOUT and a call whose connection fails yields the outcome
\* CONNECTION_ERROR, distinct from each other and from FAILED and ERROR, and
\* neither is counted as passed.
C15_TimeoutAndConnectionErrorDistinct ==
    (script \in {CT, ST, FV, T20} /\ requests_issued > 0) =>
        /\ last_outcome.kind = "timeout" => result.status = "TIMEOUT"
        /\ last_outcome.kind = "connection_error" =>
              result.status = "CONNECTION_ERROR"

----------------------------------------------------------------------------
\* C16: test_all_20_endpoints checks exactly 20 endpoints: total_tests is 20
\* in every run and the verdict FULLY OPERATIONAL is printed exactly when 20
\* of 20 checks passed.
C16_ExactlyTwenty ==
    script = T20 =>
        /\ total_tests = 20
        /\ Finished => (verdict = "FULLY OPERATIONAL" <=> passed_tests = 20)

----------------------------------------------------------------------------
\* C17: once the login check has stored a token, every later check against
\* an endpoint that requires authentication carries the header
\* Authorization: Bearer <that token>, in comprehensive_test, simple_test,
\* final_verification and test_all_20_endpoints.
C17_TokenThreaded ==
    (/\ script \in {CT, ST, FV, T20}
     /\ Truthy(auth_token)
     /\ RequiresAuth(last_request.endpoint))
        => last_request.authorization = "Bearer " \o Str(auth_token)

----------------------------------------------------------------------------
\* the checks a script lists, in the order of its lists
Listed(s) ==
    CASE s = CT -> CT_tests \o CT_dashboard_tests
      [] s = ST -> ST_tests \o ST_dashboard_tests
      [] s = FV -> FV_critical_tests \o FV_auth_tests
      [] s = T20 -> T20_endpoints
      [] OTHER -> << >>

\* the checks of the second list run only with a token
Unconditional(s) ==
    CASE s = CT -> Len(CT_tests)
      [] s = ST -> Len(ST_tests)
      [] s = FV -> Len(FV_critical_tests)
      [] OTHER -> Len(Listed(s))

\* the listed checks of this run
Scheduled(s, token) ==
    IF Truthy(token) THEN Len(Listed(s)) ELSE Unconditional(s)

\* the position of the login check in the lists of a script
LoginIndex(s) ==
    CHOOSE i \in 1..Len(Listed(s)) : Listed(s)[i].endpoint = LoginEndpoint

\* the last request is one of the rapid requests of final_verification,
\* which follow the listed checks
RapidRequest ==
    /\ script = FV
    /\ requests_issued > Scheduled(FV, auth_token)
    /\ last_request.method = "GET" /\ last_request.endpoint = "/health"

\* C18: checks run one at a time and exactly once: the k-th request of a run
\* is the k-th listed check, so no listed check is issued twice or re-issued
\* after a failure, timeout or connection error; each request has returned
\* its result before the next one is made; and the login check has
\* completed before any check on an auth-requiring endpoint is made.
C18_ListedOrder ==
    (script \in Rating /\ requests_issued > 0) =>
        /\ \/ RapidRequest
           \/ /\ requests_issued <= Scheduled(script, auth_token)
              /\ Test(last_request.method, last_request.endpoint)
                    = Listed(script)[requests_issued]
        /\ RequiresAuth(last_request.endpoint) =>
              /\ requests_issued > LoginIndex(script)
              /\ script \in LoginScripts => LoginDone
        /\ Finished =>
              requests_issued = Scheduled(script, auth_token)
                                + (IF script = FV THEN rapid_total ELSE 0)

C18_OneAtATime ==
    (script \in Rating /\ requests_issued' # requests_issued) =>
        /\ requests_issued' = requests_issued + 1
        /\ result' # NoResult
        /\ requests_issued' <= Scheduled(script, auth_token') =>
              /\ requests_issued' <= Len(Listed(script))
              /\ Test(last_request'.method, last_request'.endpoint)
                    # Test(last_request.method, last_request.endpoint)

C18_Sequential == [](C18_ListedOrder) /\ [][C18_OneAtATime]_vars

\* the twelfth and last check of a comprehensive_test run passed after two
\* earlier checks had not: twelve requests were made, none of them twice
C18_Witness ==
    /\ script = CT /\ requests_issued = 12
    /\ last_request.endpoint = "/api/v1/dashboard/contact"
    /\ result.status = "SUCCESS"
    /\ passed_tests = 10
----------------------------------------------------------------------------
\* C19: auth_token is written at most once per run and only while the
\* result of the login check is processed: it is None before the login
\* check, no other check changes it, and once set it keeps its value until
\* the end of the run.
C19_NoneBeforeLogin == ~LoginDone => auth_token = None

C19_WrittenByLoginOnly ==
    auth_token' # auth_token =>
        /\ auth_token = None
        /\ script \in LoginScripts
        /\ requests_issued' = requests_issued + 1
        /\ last_request'.endpoint = LoginEndpoint
        /\ ~LoginDone /\ LoginDone'

C19_WrittenOnce == [](C19_NoneBeforeLogin) /\ [][C19_WrittenByLoginOnly]_vars

\* a final_verification run has ended, all its checks made, with the token
\* its login check stored
C19_Witness ==
    /\ Finished /\ script = FV
    /\ auth_token = JStr("abc123")
    /\ requests_issued = Len(FV_critical_tests) + Len(FV_auth_tests) + rapid_total

----------------------------------------------------------------------------
\* C20: when the login check succeeds (status < 400) but its body is not
\* valid JSON or has no data.token field, the extraction failure is
\* swallowed: auth_token stays unset, the login check is counted as passed
\* and the run continues; in comprehensive_test and simple_test the
\* dashboard checks are then skipped, so that total is 9 and 6.
C20_LoginWithoutToken ==
    (/\ script \in LoginScripts
     /\ ~LoginDone /\ LoginDone'
     /\ last_outcome'.kind = "response"
     /\ last_outcome'.status_code < 400
     /\ last_outcome'.body.shape # "token")
        => /\ auth_token' = None
           /\ result'.status = "SUCCESS"
           /\ passed_tests' = passed_tests + 1
           /\ total_tests' = total_tests + 1
           /\ pc' \notin {"aborted", "dashboard", "authenticated"}

C20_DashboardSkipped ==
    (/\ Finished /\ script \in {CT, ST}
     /\ login_outcome.kind = "response"
     /\ login_outcome.status_code < 400
     /\ auth_token = None)
        => /\ total_tests = IF script = CT THEN 9 ELSE 6
           /\ requests_issued = total_tests
           /\ last_request.endpoint = LoginEndpoint

C20_ExtractionFailureSwallowed ==
    [](C20_DashboardSkipped) /\ [][C20_LoginWithoutToken]_vars

\* the login check of simple_test was answered 200 with an HTML page: it
\* passed, no token is held and the run goes to its summary with total 6
C20_Witness ==
    /\ script = ST /\ LoginJustDone
    /\ last_outcome.kind = "response" /\ last_outcome.status_code = 200
    /\ last_outcome.body.shape = "html"
    /\ result.status = "SUCCESS"
    /\ auth_token = None
    /\ pc = "summary" /\ total_tests = 6

----------------------------------------------------------------------------
\* C21: in AWSInstanceDiagnostic.test_network_connectivity each of the
\* ports 22, 80 and 8081 is probed exactly once, whatever the ping and the
\* other probes gave, and each probe ends in exactly one outcome: Open when
\* the connect completes, Timeout when the timeout elapses, Connection
\* refused when refused, Error otherwise; a port that is not open is never
\* reported Open.
C21_PortsInRange ==
    (script = AWS /\ pc = "ports") => idx \in 1..Len(AWS_ports_to_test)

C21_PingThenPorts ==
    (script = AWS /\ pc = "ping" /\ pc' # pc) => pc' = "ports" /\ idx' = 1

C21_OneProbePerPort ==
    (script = AWS /\ pc = "ports" /\ <<pc, idx>>' # <<pc, idx>>) =>
        /\ IF idx < Len(AWS_ports_to_test)
           THEN pc' = "ports" /\ idx' = idx + 1
           ELSE pc' = "ssh"
        /\ report'.text \in {"Open", "Timeout", "Connection refused", "Error"}
        /\ report'.text = "Open" <=> last_outcome'.kind = "open"
        /\ report'.text = "Timeout" <=> last_outcome'.kind = "timeout"
        /\ report'.text = "Connection refused" <=> last_outcome'.kind = "refused"
        /\ report'.mark = "OK" <=> last_outcome'.kind = "open"

C21_PortProbes ==
    /\ [](C21_PortsInRange)
    /\ [][C21_PingThenPorts]_vars
    /\ [][C21_OneProbePerPort]_vars

\* the probe of the third port was refused and reported so; the run goes on
\* to the ssh tests
C21_Witness ==
    /\ script = AWS /\ pc = "ssh" /\ idx = 1
    /\ last_outcome.kind = "refused"
    /\ report = Report("FAIL", "Connection refused", "")

----------------------------------------------------------------------------
\* the last check of a diagnostic run was a command run over ssh
RemoteCheckDone ==
    /\ script \in {AWS, SD}
    /\ \/ pc \in {"ssh", "issues", "health"} /\ idx > 1
       \/ pc = "http" /\ idx = 1
       \/ pc \in {"summary", "done"}

\* C22: every remote-command check (test_ssh_connectivity and
\* check_common_issues of aws_diagnostic_script, test_ssh_command of
\* simple_diagnostic) is a success if and only if the exit code is zero; a
\* non-zero exit code yields a failure carrying the captured standard
\* error, and a call exceeding its timeout yields a Timeout outcome distinct
\* from failure.
C22_RemoteCommandOutcomes ==
    RemoteCheckDone =>
        LET success == IF script = AWS THEN report.mark = "OK"
                       ELSE result.status = "SUCCESS"
            zero == last_outcome.kind = "exit" /\ last_outcome.status_code = 0
        IN  /\ success <=> zero
            /\ (last_outcome.kind = "exit" /\ last_outcome.status_code # 0)
                  => report.shows = "stderr"
            /\ last_outcome.kind = "timeout"
                  => (report.mark = "TIMEOUT" \/ report.text = "Timeout")

----------------------------------------------------------------------------
\* the login check was answered with a status below 400 other than 200
SuccessNot200(outcome) ==
    /\ outcome.kind = "response"
    /\ outcome.status_code < 400
    /\ outcome.status_code # 200

\* C23: in comprehensive_test and simple_test the token is stored only when
\* the login response status is exactly 200: a login answered with another
\* status below 400 (201 for one) whose body contains data.token is counted
\* as passed but leaves auth_token unset, so the dashboard checks are
\* skipped.
C23_StoredOnlyOn200 ==
    script \in {CT, ST} =>
        /\ auth_token # None => login_outcome = Outcome("response", 200, NoBody)
        /\ (Finished /\ SuccessNot200(login_outcome)) =>
              /\ auth_token = None
              /\ total_tests = Unconditional(script)
              /\ requests_issued = Unconditional(script)

C23_LoginNot200 ==
    (/\ script \in {CT, ST}
     /\ ~LoginDone /\ LoginDone'
     /\ SuccessNot200(last_outcome'))
        => /\ auth_token' = None
           /\ result'.status = "SUCCESS"
           /\ passed_tests' = passed_tests + 1
           /\ pc' = "summary"

C23_TokenOnlyOn200 == [](C23_StoredOnlyOn200) /\ [][C23_LoginNot200]_vars

\* the login check of simple_test was answered 201 with a short body that
\* holds data.token: it passed, the token is not stored and the run goes to
\* its summary
C23_Witness ==
    /\ script = ST /\ LoginJustDone
    /\ last_outcome.status_code = 201
    /\ last_outcome.body = Body("token", JStr("abc123"), 30, 0)
    /\ result.status = "SUCCESS"
    /\ auth_token = None
    /\ pc = "summary"

----------------------------------------------------------------------------
\* C24: in final_verification, against a service that rejects every
\* dashboard request lacking an Authorization header, no run reaches the
\* FULLY SUCCESSFUL verdict: the two dashboard checks of the critical list
\* are always sent without Authorization, so passed is at most 5 of 7
\* without a token and at most 7 of 9 with one, and the success rate stays
\* below 90.
C24_NeverFullySuccessful ==
    script = FV =>
        /\ verdict # "FULLY SUCCESSFUL"
        /\ requests_issued \in {5, 6} =>
              /\ Contains("/api/v1/dashboard/", last_request.endpoint)
              /\ last_request.authorization = NoHeader
              /\ result.status # "SUCCESS"
        /\ pc \in {"rapid", "summary", "done"} =>
              /\ total_tests = IF Truthy(auth_token) THEN 9 ELSE 7
              /\ passed_tests <= total_tests - 2
        /\ Finished => ~RateGE(success_rate, 90)

\* a run that obtained a token and passed every check but the two dashboard
\* checks of the critical list: 7 of 9, all rapid requests answered, and
\* the verdict is MOSTLY ACCESSIBLE
C24_Witness ==
    /\ Finished /\ script = FV
    /\ Truthy(auth_token)
    /\ total_tests = 9 /\ passed_tests = 7
    /\ rapid_success = rapid_total
    /\ verdict = "MOSTLY ACCESSIBLE"

=============================================================================
